---- MODULE Spec2Model ----
(***************************************************************************)
(* Multiaxis Protection Module: the keyword gate and its optional          *)
(* Safe Harbor (disclaimer) step, in two variants of the same module:      *)
(*   "inline"   - src/protection.js  (disclaimer handlers are inline       *)
(*                onchange/onclick attributes of the overlay markup)       *)
(*   "listener" - src/unnamed/part_000 (disclaimer handlers are attached   *)
(*                with addEventListener by showSafeHarborModal)            *)
(* A JavaScript string is a sequence of one-character strings, so that     *)
(* trim(), toUpperCase() and replace(/\s+/g, '') are computed.             *)
(***************************************************************************)
EXTENDS Integers, Sequences, FiniteSets, TLC

VARIABLES
    variant,     \* "inline" (protection.js) or "listener" (part_000)
    userConfig,  \* the argument the page passes to init
    nextConfig,  \* <<>>, or <<the argument of a second init call of the page>>
    pool,        \* the candidates a visitor may type
    config,      \* the module's config record
    storage,     \* sessionStorage
    dom,         \* the document: content elements, overlays, controls
    dataset,     \* <<>>, or <<the dataset of the element with data-protection>>
    today,       \* the current day
    phase,       \* "loading" (document loading, init not called), "pending"
                 \* (init called, setup waits for DOMContentLoaded), "idle"
                 \* (document ready, init not called), "ready" (setup has
                 \* run), "again" (setup has run twice), "away" (navigated
                 \* to '/')
    initial,     \* the gate state setup resolved on this page, or "none"
    trace,       \* effects of the last handler, in program order
    last         \* the last event: its name, its input, the gate state and
                 \* the flags it found and, for a setup or a submit, the
                 \* event before it

vars == <<variant, userConfig, nextConfig, pool, dataset, today, config, storage, dom, phase, initial,
         trace, last>>

\* fixed for a run: the script variant, the page's init argument, its marker
\* element, the candidates a visitor may type and the day
fixed == <<variant, userConfig, nextConfig, pool, dataset, today>>

----------------------------------------------------------------------------
(* Bounds *)

\* longest candidate typed into the challenge input (besides the named ones)
MaxLen == 2

----------------------------------------------------------------------------
(* JavaScript strings *)

Null == "null"

LowerChars == <<"a", "b", "c", "i", "l", "m", "s", "t", "u", "x">>
UpperChars == <<"A", "B", "C", "I", "L", "M", "S", "T", "U", "X">>

IsSpace(ch) == ch = " "

toUpperCaseChar(ch) ==
    IF \E i \in DOMAIN LowerChars : LowerChars[i] = ch
    THEN UpperChars[CHOOSE i \in DOMAIN LowerChars : LowerChars[i] = ch]
    ELSE ch

toUpperCase(s) == [i \in DOMAIN s |-> toUpperCaseChar(s[i])]

RECURSIVE trimStart(_)
trimStart(s) ==
    IF s # <<>> /\ IsSpace(Head(s)) THEN trimStart(Tail(s)) ELSE s

RECURSIVE trimEnd(_)
trimEnd(s) ==
    IF s # <<>> /\ IsSpace(s[Len(s)]) THEN trimEnd(SubSeq(s, 1, Len(s) - 1)) ELSE s

trim(s) == trimEnd(trimStart(s))

\* answer.replace(/\s+/g, '')
RECURSIVE replaceWhitespace(_)
replaceWhitespace(s) ==
    IF s = <<>> THEN <<>>
    ELSE IF IsSpace(Head(s)) THEN replaceWhitespace(Tail(s))
    ELSE <<Head(s)>> \o replaceWhitespace(Tail(s))

----------------------------------------------------------------------------
(* Named strings *)

MULTIAXIS == <<"M", "U", "L", "T", "I", "A", "X", "I", "S">>
MULTIAXIS_LLC == MULTIAXIS \o <<" ", "L", "L", "C">>
MULTIAXIS_AI == MULTIAXIS \o <<" ", "A", "I">>
MULTIAXIS_INTELLIGENCE == MULTIAXIS \o <<" ", "I", "N", "T", "E", "L", "L", "I", "G", "E", "N", "C", "E">>

----------------------------------------------------------------------------
(* JavaScript values of the configuration record.  Booleans are the        *)
(* strings "true" and "false", null is "null", a callback is "fn"; a field  *)
(* that a record does not have reads as "undefined".  A string that spells *)
(* a boolean is written with its quotes ("'false'"), which tells it from   *)
(* the boolean.                                                            *)

JsTrue == "true"
JsFalse == "false"
Undefined == "undefined"

\* if (v) ...
Truthy(v) == v \notin {JsFalse, Null, "", Undefined}

\* config.cb && typeof config.cb === 'function'
IsFunction(v) == v \in {"fn", "fn:replace"}

defaults(v) ==
    [ protectedContentId  |-> "protectedContent",
      modalId             |-> "protectionModal",
      acceptedAnswers     |-> IF v = "inline"
                              THEN <<MULTIAXIS, MULTIAXIS_LLC, MULTIAXIS_AI>>
                              ELSE <<MULTIAXIS, MULTIAXIS_LLC, MULTIAXIS_INTELLIGENCE>>,
      enableSafeHarbor    |-> JsTrue,
      safeHarborDate      |-> <<>>,     \* null; a date string is <<its day>>
      safeHarborDaysValid |-> IF v = "inline" THEN 30 ELSE 90,
      safeHarborText      |-> Null,
      useDefaultStyles    |-> JsTrue,
      sessionKey          |-> "multiaxis_protection",
      safeHarborKey       |-> Null,
      onSuccess           |-> Null,
      onError             |-> Null,
      beforeCheck         |-> Null,
      onSafeHarborAccept  |-> Null,
      onSafeHarborDecline |-> Null ]

\* let config = {}: the record before init is called, every field undefined
NoConfig == [f \in DOMAIN defaults("inline") |-> Undefined]

\* mutant: { ...userConfig, ...defaults }, the defaults win
merge_defaultsLast(d, u) ==
    [f \in (DOMAIN d) \cup (DOMAIN u) |-> IF f \in DOMAIN d THEN d[f] ELSE u[f]]

\* config = { ...defaults, ...userConfig }
merge(d, u) ==
    [f \in (DOMAIN d) \cup (DOMAIN u) |-> IF f \in DOMAIN u THEN u[f] ELSE d[f]]

\* mutant: the caller's safeHarborKey is ignored
safeHarborKey_derivedOnly(cfg) == cfg.sessionKey \o "_safeharbor"

\* config.safeHarborKey || config.sessionKey + '_safeharbor'
safeHarborKey(cfg) ==
    IF Truthy(cfg.safeHarborKey) THEN cfg.safeHarborKey
    ELSE cfg.sessionKey \o "_safeharbor"

----------------------------------------------------------------------------
(* The world a handler runs in: w = [cfg, store, dom, tr].                 *)
(*   cfg    the module's shared config record                              *)
(*   store  sessionStorage, key -> value or Null                           *)
(*   dom    the page: ids of the content elements in the markup, the ids   *)
(*          carrying class 'authorized', the two overlays and their        *)
(*          controls                                                       *)
(*   tr     the effects of the running handler, in program order           *)

Event(name, args) == [ev |-> name, arg |-> args]

Log(w, name, args) == [w EXCEPT !.tr = Append(@, Event(name, args))]

\* sessionStorage.setItem(key, value)
setItem(w, key, value) ==
    Log([w EXCEPT !.store = [k \in (DOMAIN @) \cup {key} |->
                                IF k = key THEN value ELSE @[k]]],
        "setItem", <<key, value>>)

\* sessionStorage.removeItem(key)
removeItem(w, key) ==
    Log([w EXCEPT !.store = [k \in DOMAIN @ |-> IF k = key THEN Null ELSE @[k]]],
        "removeItem", <<key>>)

\* sessionStorage.clear()
clear(w) ==
    Log([w EXCEPT !.store = [k \in DOMAIN @ |-> Null]], "clear", <<>>)

\* sessionStorage.getItem(key)
getItem(w, key) == IF key \in DOMAIN w.store THEN w.store[key] ELSE Null

\* the page as the browser hands it to the script: no overlay yet
FreshDom(ids) ==
    [ ids            |-> ids,      \* content elements present in the markup
      authorized     |-> {},       \* ids carrying class 'authorized'
      styles         |-> 0,        \* default style sheets appended to head
      modal          |-> 0,        \* challenge overlays appended to body
      modalHidden    |-> FALSE,    \* of the overlay getElementById finds
      modal2Hidden   |-> FALSE,    \* of the overlay a second setup appends
      sh             |-> 0,        \* disclaimer overlays appended to body
      shHidden       |-> FALSE,    \* of the overlay getElementById finds
      sh2Hidden      |-> FALSE,    \* of the overlay a second setup appends
      checked        |-> FALSE,    \* #safeHarborCheckbox
      acceptDisabled |-> TRUE,     \* #safeHarborAccept
      shLive         |-> FALSE,    \* disclaimer controls have handlers
      listeners      |-> 0,        \* keypress listeners on #protectionInput
      inputValue     |-> <<>>,     \* #protectionInput
      errorShown     |-> FALSE,    \* #protectionError display: block
      notice         |-> <<>>,     \* 'Date of Notice' of the disclaimer
      expires        |-> <<>> ]    \* 'accessed after ...' of the disclaimer

----------------------------------------------------------------------------
(* Handlers, as functions of the world *)

\* what the visitor sees
\* the overlay that getElementById finds, the first in the document, is
\* shown: its controls are the ones that carry the handlers and the focus
InputShown(d) == d.modal > 0 /\ ~d.modalHidden
ControlsShown(d) == d.sh > 0 /\ ~d.shHidden

ChallengeShown(d) == InputShown(d) \/ (d.modal > 1 /\ ~d.modal2Hidden)
DisclaimerShown(d) == ControlsShown(d) \/ (d.sh > 1 /\ ~d.sh2Hidden)
RegionVisible(cfg, d) == cfg.protectedContentId \in d.authorized

\* what the default style sheet makes of an element of the page: its rules
\* '#protectedContent { display: none }' and '#protectedContent.authorized
\* { display: block }' name one id; an element without a rule is displayed
Displayed(d, id) ==
    /\ id \in d.ids
    /\ (d.styles > 0 /\ id = "protectedContent") => id \in d.authorized

\* an uncaught exception ends the handler; what it did so far stays done
throw(w, name) == Log(w, "throw", <<name>>)
Threw(tr) == \E i \in DOMAIN tr : tr[i].ev = "throw"

\* invoke a configured callback with its arguments
call(w, name, args) ==
    IF IsFunction(w.cfg[name]) THEN Log(w, name, args) ELSE w

showProtectedContent(w) ==
    IF w.cfg.protectedContentId \in w.dom.ids
    THEN [w EXCEPT !.dom.authorized = @ \cup {w.cfg.protectedContentId}]
    ELSE w

\* mutant: the checkbox is unchecked and the button is left as it was
showSafeHarborModalInline_checkboxOnly(w) ==
    IF w.dom.sh = 0 THEN Log(w, "console.error", <<"Safe Harbor modal not found">>)
    ELSE [w EXCEPT !.dom.shHidden = FALSE,
                   !.dom.checked = FALSE]

showSafeHarborModalInline(w) ==
    IF w.dom.sh = 0 THEN Log(w, "console.error", <<"Safe Harbor modal not found">>)
    ELSE [w EXCEPT !.dom.shHidden = FALSE,
                   !.dom.checked = FALSE,
                   !.dom.acceptDisabled = TRUE]

\* the three controls are replaced by clones (which keep their checked and
\* disabled state) and the listeners are attached to the clones
showSafeHarborModalListener(w) ==
    IF w.dom.sh = 0 THEN Log(w, "console.error", <<"Safe Harbor modal not found">>)
    ELSE [w EXCEPT !.dom.shHidden = FALSE,
                   !.dom.shLive = TRUE]

showSafeHarborModal(v, w) ==
    IF v = "inline" THEN showSafeHarborModalInline(w)
    ELSE showSafeHarborModalListener(w)

\* config.beforeCheck(userAnswer): the callback sees userAnswer; a callback
\* "fn:replace" also replaces the content of the caller's acceptedAnswers
\* array by it (answers.length = 0; answers.push(a)), and the shallow merge
\* of init shares that array with config
beforeCheck(w, userAnswer) ==
    LET w1 == call(w, "beforeCheck", userAnswer)
    IN  IF w.cfg.beforeCheck = "fn:replace"
        THEN [w1 EXCEPT !.cfg.acceptedAnswers = <<userAnswer>>]
        ELSE w1

\* mutant: the space-stripped form is not compared
isCorrect_verbatimOnly(acceptedAnswers, userAnswer) ==
    \E i \in DOMAIN acceptedAnswers : userAnswer = toUpperCase(acceptedAnswers[i])

\* mutant: the accepted answers are compared as configured, not uppercased
isCorrect_caseSensitive(acceptedAnswers, userAnswer) ==
    \E i \in DOMAIN acceptedAnswers :
        \/ userAnswer = acceptedAnswers[i]
        \/ userAnswer = replaceWhitespace(acceptedAnswers[i])

\* config.acceptedAnswers.some(answer => ...)
isCorrect(acceptedAnswers, userAnswer) ==
    \E i \in DOMAIN acceptedAnswers :
        \/ userAnswer = toUpperCase(acceptedAnswers[i])
        \/ userAnswer = toUpperCase(replaceWhitespace(acceptedAnswers[i]))

\* mutant: onSuccess is called before the flag is stored
checkAccessPass_callbackFirst(v, w) ==
    LET w1 == [w EXCEPT !.dom.modalHidden = TRUE]
        w2 == IF Truthy(w1.cfg.enableSafeHarbor)
              THEN showSafeHarborModal(v, w1)
              ELSE showProtectedContent(w1)
        w3 == [w2 EXCEPT !.dom.inputValue = <<>>, !.dom.errorShown = FALSE]
        w4 == call(w3, "onSuccess", <<>>)
    IN  setItem(w4, w4.cfg.sessionKey, "granted")

\* mutant: the disclaimer is asked for whether it is enabled or not
checkAccessPass_alwaysDisclaimer(v, w) ==
    LET w1 == [w EXCEPT !.dom.modalHidden = TRUE]
        w2 == showSafeHarborModal(v, w1)
        w3 == [w2 EXCEPT !.dom.inputValue = <<>>, !.dom.errorShown = FALSE]
        w4 == setItem(w3, w3.cfg.sessionKey, "granted")
    IN  call(w4, "onSuccess", <<>>)

\* mutant: the error message of an earlier failure is left displayed
checkAccessPass_keepsError(v, w) ==
    LET w1 == [w EXCEPT !.dom.modalHidden = TRUE]
        w2 == IF Truthy(w1.cfg.enableSafeHarbor)
              THEN showSafeHarborModal(v, w1)
              ELSE showProtectedContent(w1)
        w3 == [w2 EXCEPT !.dom.inputValue = <<>>]
        w4 == setItem(w3, w3.cfg.sessionKey, "granted")
    IN  call(w4, "onSuccess", <<>>)

checkAccessPass(v, w) ==
    LET w1 == [w EXCEPT !.dom.modalHidden = TRUE]
        w2 == IF Truthy(w1.cfg.enableSafeHarbor)
              THEN showSafeHarborModal(v, w1)
              ELSE showProtectedContent(w1)
        w3 == [w2 EXCEPT !.dom.inputValue = <<>>, !.dom.errorShown = FALSE]
        w4 == setItem(w3, w3.cfg.sessionKey, "granted")
    IN  call(w4, "onSuccess", <<>>)

\* mutant: onError is given the text as typed
checkAccessFail_rawCandidate(w, userAnswer) ==
    LET w1 == [w EXCEPT !.dom.errorShown = TRUE, !.dom.inputValue = <<>>]
    IN  call(w1, "onError", w.dom.inputValue)

\* mutant: the rejected candidate is left in the input field
checkAccessFail_keepsInput(w, userAnswer) ==
    LET w1 == [w EXCEPT !.dom.errorShown = TRUE]
    IN  call(w1, "onError", userAnswer)

\* mutant: the error callback is not called
checkAccessFail_noCallback(w, userAnswer) ==
    [w EXCEPT !.dom.errorShown = TRUE, !.dom.inputValue = <<>>]

checkAccessFail(w, userAnswer) ==
    LET w1 == [w EXCEPT !.dom.errorShown = TRUE, !.dom.inputValue = <<>>]
    IN  call(w1, "onError", userAnswer)

checkAccess(v, w) ==
    IF w.dom.modal = 0 THEN throw(w, "TypeError")
    ELSE
    LET userAnswer == toUpperCase(trim(w.dom.inputValue))
        w1 == beforeCheck(w, userAnswer)
    IN  IF isCorrect(w1.cfg.acceptedAnswers, userAnswer)
        THEN checkAccessPass(v, w1)
        ELSE checkAccessFail(w1, userAnswer)

\* if (config.useDefaultStyles) document.head.appendChild(createStyles())
createStyles(w) ==
    IF Truthy(w.cfg.useDefaultStyles) THEN [w EXCEPT !.dom.styles = @ + 1] ELSE w

\* body.appendChild(createModal())
createModal(w) == [w EXCEPT !.dom.modal = @ + 1, !.dom.modal2Hidden = FALSE]

\* Dates are day numbers: new Date(string) is the day the string names,
\* new Date() is the current day, and formatDate prints one text per day.
getSafeHarborDate(w) ==
    IF w.cfg.safeHarborDate # <<>> THEN w.cfg.safeHarborDate ELSE <<w.now>>

\* baseDate + (config.safeHarborDaysValid || 90): 0 is falsy
getSafeHarborExpirationDate(w) ==
    LET baseDate == IF w.cfg.safeHarborDate # <<>> THEN w.cfg.safeHarborDate[1] ELSE w.now
        days == IF w.cfg.safeHarborDaysValid = 0 THEN 90 ELSE w.cfg.safeHarborDaysValid
    IN  <<baseDate + days>>

\* body.appendChild(createSafeHarborModal()): checkbox unchecked, accept
\* disabled; the inline variant carries its handlers in the markup.  The
\* default text names the expiration date, the footer the date of notice.
\* An overlay appended when the document already holds one has the same id:
\* getElementById keeps finding the first, whose controls and dates are the
\* ones recorded.
createSafeHarborModal(v, w) ==
    IF w.dom.sh > 0 THEN [w EXCEPT !.dom.sh = @ + 1, !.dom.sh2Hidden = FALSE]
    ELSE
    [w EXCEPT !.dom.sh = @ + 1,
              !.dom.shLive = (v = "inline"),
              !.dom.notice = getSafeHarborDate(w),
              !.dom.expires = IF Truthy(w.cfg.safeHarborText) THEN <<>>
                              ELSE getSafeHarborExpirationDate(w)]

\* safeHarborModal.classList.add('hidden') on the node just appended
hideNewSafeHarborModal(w) ==
    IF w.dom.sh > 1 THEN [w EXCEPT !.dom.sh2Hidden = TRUE]
    ELSE [w EXCEPT !.dom.shHidden = TRUE]

\* mutant: a keypress listener is registered once, like the click listener
addListeners_once(w) == [w EXCEPT !.dom.listeners = 1]

\* submitButton.addEventListener('click', checkAccess) registers the one
\* function checkAccess, which the browser keeps once per element;
\* input.addEventListener('keypress', function(e) {...}) registers a new
\* function at every setup
addListeners(w) == [w EXCEPT !.dom.listeners = @ + 1]

\* mutant: the disclaimer overlay is left as it is
hideOverlays_challengeOnly(w) == [w EXCEPT !.dom.modalHidden = TRUE]

hideOverlays(w) ==
    [w EXCEPT !.dom.modalHidden = TRUE,
              !.dom.shHidden = IF w.dom.sh > 0 THEN TRUE ELSE @]

hasProtectionAccess(w) == getItem(w, w.cfg.sessionKey) = "granted"
hasSafeHarborAccess(w) == getItem(w, safeHarborKey(w.cfg)) = "accepted"

\* the inline setup hides the challenge overlay through its variable modal,
\* the node it has just appended
hideOverlaysInline(w) ==
    IF w.dom.modal > 1
    THEN [w EXCEPT !.dom.modal2Hidden = TRUE,
                   !.dom.shHidden = IF w.dom.sh > 0 THEN TRUE ELSE @]
    ELSE hideOverlays(w)

\* mutant: partial progress is kept and the disclaimer is shown for it, as in
\* the listener variant
setupInline_keepsPartial(w) ==
    LET w1 == createModal(createStyles(w))
        w2 == IF Truthy(w1.cfg.enableSafeHarbor)
              THEN hideNewSafeHarborModal(createSafeHarborModal("inline", w1))
              ELSE w1
    IN  IF hasProtectionAccess(w2)
           /\ (~Truthy(w2.cfg.enableSafeHarbor) \/ hasSafeHarborAccess(w2))
        THEN showProtectedContent(hideOverlaysInline(w2))
        ELSE IF hasProtectionAccess(w2)
        THEN addListeners(showSafeHarborModalInline([w2 EXCEPT !.dom.modalHidden = TRUE]))
        ELSE addListeners([w2 EXCEPT !.dom.modalHidden =
                                         IF w2.dom.modal > 1 THEN @ ELSE FALSE])

\* mutant: the else branch removes the primary entry only
setupInline_keepsAccepted(w) ==
    LET w1 == createModal(createStyles(w))
        w2 == IF Truthy(w1.cfg.enableSafeHarbor)
              THEN hideNewSafeHarborModal(createSafeHarborModal("inline", w1))
              ELSE w1
    IN  IF hasProtectionAccess(w2)
           /\ (~Truthy(w2.cfg.enableSafeHarbor) \/ hasSafeHarborAccess(w2))
        THEN showProtectedContent(hideOverlaysInline(w2))
        ELSE LET w3 == removeItem(w2, w2.cfg.sessionKey)
                 w5 == [w3 EXCEPT !.dom.shHidden = IF w3.dom.sh > 0 THEN TRUE ELSE @,
                                  !.dom.modalHidden = IF w3.dom.modal > 1 THEN @ ELSE FALSE]
             IN  addListeners(w5)

setupInline(w) ==
    LET w1 == createModal(createStyles(w))
        w2 == IF Truthy(w1.cfg.enableSafeHarbor)
              THEN hideNewSafeHarborModal(createSafeHarborModal("inline", w1))
              ELSE w1
    IN  IF hasProtectionAccess(w2)
           /\ (~Truthy(w2.cfg.enableSafeHarbor) \/ hasSafeHarborAccess(w2))
        THEN showProtectedContent(hideOverlaysInline(w2))
        ELSE LET w3 == removeItem(w2, w2.cfg.sessionKey)
                 w4 == removeItem(w3, safeHarborKey(w3.cfg))
                 w5 == [w4 EXCEPT !.dom.shHidden = IF w4.dom.sh > 0 THEN TRUE ELSE @,
                                  !.dom.modalHidden = IF w4.dom.modal > 1 THEN @ ELSE FALSE]
             IN  addListeners(w5)

\* mutant: no branch for 'granted' without 'accepted'
checkExistingAccess_noPartialBranch(w) ==
    LET hasSH == ~Truthy(w.cfg.enableSafeHarbor) \/ hasSafeHarborAccess(w)
    IN  IF hasProtectionAccess(w) /\ hasSH
        THEN <<showProtectedContent(hideOverlays(w)), TRUE>>
        ELSE <<w, FALSE>>

\* returns <<world, result>>
checkExistingAccess(w) ==
    LET hasSH == ~Truthy(w.cfg.enableSafeHarbor) \/ hasSafeHarborAccess(w)
    IN  IF hasProtectionAccess(w) /\ hasSH
        THEN <<showProtectedContent(hideOverlays(w)), TRUE>>
        ELSE IF hasProtectionAccess(w) /\ Truthy(w.cfg.enableSafeHarbor) /\ ~hasSH
        THEN <<showSafeHarborModal("listener", [w EXCEPT !.dom.modalHidden = TRUE]), FALSE>>
        ELSE <<w, FALSE>>

setupListener(w) ==
    LET w1 == createModal(createStyles(w))
        w2 == IF Truthy(w1.cfg.enableSafeHarbor)
              THEN createSafeHarborModal("listener", w1)
              ELSE w1
        r  == checkExistingAccess(w2)
    IN  IF ~r[2] THEN addListeners(r[1]) ELSE r[1]

setup(v, w) == IF v = "inline" THEN setupInline(w) ELSE setupListener(w)

\* onchange of #safeHarborCheckbox: the browser toggles the box, then the
\* handler (if the control has one) enables or disables the accept button
checkboxChange(w) ==
    LET w1 == [w EXCEPT !.dom.checked = ~@]
    IN  IF w1.dom.shLive
        THEN [w1 EXCEPT !.dom.acceptDisabled = ~w1.dom.checked]
        ELSE w1

\* mutant: the region is revealed and no disclaimer entry is stored
acceptInline_noEntry(w) ==
    IF ~w.dom.checked THEN w
    ELSE LET w1 == [w EXCEPT !.dom.shHidden = TRUE]
         IN  IF "protectedContent" \notin w1.dom.ids THEN throw(w1, "TypeError")
             ELSE [w1 EXCEPT !.dom.authorized = @ \cup {"protectedContent"}]

\* inline onclick of #safeHarborAccept
acceptInline(w) ==
    IF ~w.dom.checked THEN w
    ELSE LET w1 == [w EXCEPT !.dom.shHidden = TRUE]
         IN  IF "protectedContent" \notin w1.dom.ids THEN throw(w1, "TypeError")
             ELSE setItem([w1 EXCEPT !.dom.authorized = @ \cup {"protectedContent"}],
                          safeHarborKey(w1.cfg), "accepted")

\* click listener of #safeHarborAccept
acceptListener(w) ==
    IF ~w.dom.checked THEN w
    ELSE LET w1 == showProtectedContent([w EXCEPT !.dom.shHidden = TRUE])
             w2 == setItem(w1, safeHarborKey(w1.cfg), "accepted")
         IN  call(w2, "onSafeHarborAccept", <<>>)

\* mutant: the click is ignored once the displayed expiration date has passed
acceptClick_enforcesExpiration(v, w) ==
    IF w.dom.acceptDisabled \/ ~w.dom.shLive THEN w
    ELSE IF w.dom.expires # <<>> /\ w.dom.expires[1] < w.now THEN w
    ELSE IF v = "inline" THEN acceptInline(w) ELSE acceptListener(w)

\* a click on a disabled button, or on one without a handler, runs nothing
acceptClick(v, w) ==
    IF w.dom.acceptDisabled \/ ~w.dom.shLive THEN w
    ELSE IF v = "inline" THEN acceptInline(w) ELSE acceptListener(w)

\* inline onclick of #safeHarborDecline
declineInline(w) == Log(clear(w), "navigate", <<"/">>)

\* click listener of #safeHarborDecline
declineListener(w) ==
    LET w1 == removeItem(w, w.cfg.sessionKey)
        w2 == removeItem(w1, safeHarborKey(w1.cfg))
        w3 == call(w2, "onSafeHarborDecline", <<>>)
    IN  Log(w3, "reload", <<>>)

declineClick(v, w) ==
    IF ~w.dom.shLive THEN w
    ELSE IF v = "inline" THEN declineInline(w) ELSE declineListener(w)

\* mutant: the page is reloaded with the primary flag left in place
reset_reloadOnly(w) == Log(w, "reload", <<>>)

\* MultiaxisProtection.reset()
reset(w) == Log(removeItem(w, w.cfg.sessionKey), "reload", <<>>)

\* one click on the submit button, or one Enter in the input: every
\* registered listener runs checkAccess
RECURSIVE dispatch(_, _, _)
dispatch(v, w, n) ==
    IF n = 0 \/ Threw(w.tr) THEN w ELSE dispatch(v, checkAccess(v, w), n - 1)

----------------------------------------------------------------------------
(* Gate state, as the visitor sees it *)

Gate(cfg, d) ==
    IF RegionVisible(cfg, d) /\ ~ChallengeShown(d) /\ ~DisclaimerShown(d) THEN "UNLOCKED"
    ELSE IF ~RegionVisible(cfg, d) /\ ChallengeShown(d) THEN "LOCKED"
    ELSE IF ~RegionVisible(cfg, d) /\ DisclaimerShown(d) THEN "DISCLAIMER_PENDING"
    ELSE "OTHER"

----------------------------------------------------------------------------
(* Inputs *)

Alphabet == {"a", "B", " "}

Strings(n) == UNION {[1..k -> Alphabet] : k \in 0..n}

multi_axis == <<"m", "u", "l", "t", "i", " ", "a", "x", "i", "s">>
MultiaxisLLC == <<"M", "u", "l", "t", "i", "a", "x", "i", "s", "L", "L", "C">>
multiaxis_padded == <<" ", "m", "u", "l", "t", "i", "a", "x", "i", "s", " ">>

NamedCandidates ==
    {multi_axis, MultiaxisLLC, multiaxis_padded, <<"a", " ", "B">>, <<"B", " ", " ", "a">>}

Candidates == Strings(MaxLen) \cup NamedCandidates

\* acceptedAnswers: ['aB', 'B a']
MiniAnswers == << <<"a", "B">>, <<"B", " ", "a">> >>

\* acceptedAnswers: ['MULTIAXIS', 'MULTIAXIS LLC']
ScenarioAnswers == <<MULTIAXIS, MULTIAXIS_LLC>>

Empty == [x \in {} |-> Null]

SafeHarborOptions == {Empty, [enableSafeHarbor |-> JsFalse]}

\* the second section of README 'Multiple Protected Sections', with an option
\* the module does not know; a disclaimer key of the caller's choice
ContentOptions ==
    {Empty,
     [protectedContentId |-> "premiumContent", sessionKey |-> "premium_access",
      theme |-> "dark"],
     [safeHarborKey |-> "terms_accepted"]}

CallbackOptions_fn ==
    [onSuccess |-> "fn", onError |-> "fn", beforeCheck |-> "fn",
     onSafeHarborAccept |-> "fn", onSafeHarborDecline |-> "fn"]

CallbackOptions ==
    {Empty, CallbackOptions_fn,
     [onSuccess |-> "fn", onError |-> "fn", beforeCheck |-> "fn:replace",
      onSafeHarborAccept |-> "fn", onSafeHarborDecline |-> "fn"]}

AnswerOptions == {Empty, [acceptedAnswers |-> MiniAnswers], [acceptedAnswers |-> <<>>]}

\* init arguments of the gate runs
UserConfigs ==
    {merge(merge(a, b), merge(c, d)) :
        a \in SafeHarborOptions, b \in ContentOptions,
        c \in AnswerOptions, d \in CallbackOptions}

\* init arguments of the matching runs
MatchConfigs ==
    {merge(merge(a, c), CallbackOptions_fn) :
        a \in SafeHarborOptions,
        c \in {[acceptedAnswers |-> MiniAnswers], [acceptedAnswers |-> ScenarioAnswers]}}

\* marker elements: <div data-protection="multiaxis" ...>, with data
\* attributes, and an element whose data-protection has another value
Markers ==
    {[protection |-> "multiaxis"],
     [protection |-> "multiaxis", sessionKey |-> "premium_access",
      protectedContentId |-> "premiumContent", enableSafeHarbor |-> "'false'"],
     [protection |-> "multiaxis", enableSafeHarbor |-> "'true'", theme |-> "dark"],
     [protection |-> "other", sessionKey |-> "premium_access"]}

\* init arguments of the runs about the dates: safeHarborDate given (day 60)
\* or not, safeHarborDaysValid 0, 45 or not given
DateConfigs ==
    {merge(merge(a, b), CallbackOptions_fn) :
        a \in {Empty, [safeHarborDate |-> <<60>>]},
        b \in {Empty, [safeHarborDaysValid |-> 0], [safeHarborDaysValid |-> 45]}}

\* the section of README 'Multiple Protected Sections'
PremiumSection == [protectedContentId |-> "premiumContent", sessionKey |-> "premium_access"]

\* pages that call init twice: with the same argument (disclaimer enabled,
\* disabled, a hook that rewrites the answers), and for two sections
TwicePairs ==
    {<<u, u>> : u \in {CallbackOptions_fn,
                       merge([enableSafeHarbor |-> JsFalse], CallbackOptions_fn),
                       [beforeCheck |-> "fn:replace", onSuccess |-> "fn",
                        onError |-> "fn"]}}
    \cup {<<merge(PremiumSection, CallbackOptions_fn), CallbackOptions_fn>>,
          <<CallbackOptions_fn, merge(PremiumSection, CallbackOptions_fn)>>,
          <<Empty, merge(PremiumSection, [enableSafeHarbor |-> JsFalse])>>}

\* the day of the gate runs, and the days of the runs about the dates
MainDays == {100}
DateDays == {100, 145}

\* what a visitor types in the gate runs
MainPool == {<<>>, multiaxis_padded, <<"a", "b">>, <<"a", " ", "B">>, <<"b", "a">>}

AllKeys == {"multiaxis_protection", "multiaxis_protection_safeharbor",
            "premium_access", "premium_access_safeharbor", "terms_accepted",
            "unrelated"}

\* sessionStorage at the start of a run: the two entries of the configuration
\* may already hold a flag (from an earlier page load, or set by the user) or
\* some other value
Storages(cfg) ==
    {[k \in AllKeys |->
        IF k = cfg.sessionKey THEN g
        ELSE IF k = safeHarborKey(cfg) THEN a
        ELSE IF k = "unrelated" THEN "keep" ELSE Null] :
     g \in {Null, "granted", "stale"}, a \in {Null, "accepted", "stale"}}

----------------------------------------------------------------------------
(* The state machine *)

World == [cfg |-> config, store |-> storage, dom |-> dom, tr |-> <<>>, now |-> today]

\* the event being handled, for a handler that runs with configuration cfg;
\* relock: reset() has been called in UNLOCKED and no click on accept has run
\* the accept handler since
OpWith(cfg, name, input) ==
    [op |-> name, input |-> input, from |-> Gate(cfg, dom),
     after |-> IF name \in {"setup", "submit"} THEN last.op ELSE "any",
     granted |-> getItem(World, cfg.sessionKey) = "granted",
     accepted |-> getItem(World, safeHarborKey(cfg)) = "accepted",
     key |-> "any",
     relock |-> IF name = "reset" /\ Gate(cfg, dom) = "UNLOCKED" THEN TRUE
                ELSE IF name = "accept" /\ dom.checked /\ ~dom.acceptDisabled
                        /\ dom.shLive
                THEN FALSE
                ELSE last.relock]

Op(name, input) == OpWith(config, name, input)

Commit(w) ==
    /\ config' = w.cfg
    /\ storage' = w.store
    /\ dom' = w.dom
    /\ trace' = w.tr

Leaves(tr) == \E i \in DOMAIN tr : tr[i].ev \in {"reload", "navigate"}

\* the page is left when the handler reloads or navigates
Unload(w, next) ==
    /\ config' = NoConfig
    /\ storage' = w.store
    /\ dom' = FreshDom(w.dom.ids)
    /\ trace' = w.tr
    /\ phase' = next

\* pages: the configured region is in the markup, or missing; a page whose
\* region has another id may hold an element 'protectedContent' as well
Pages(cfg) ==
    {{}, {cfg.protectedContentId}, {cfg.protectedContentId, "protectedContent"}}

\* a new session: neither flag stored
NewSession == [k \in AllKeys |-> IF k = "unrelated" THEN "keep" ELSE Null]

\* document.querySelector('[data-protection="multiaxis"]') finds an element
HasMarker == dataset # <<>> /\ dataset[1].protection = "multiaxis"

\* mutant: attributes that spell a boolean are turned into the boolean
collect_coerced(data) ==
    [key \in DOMAIN data \ {"protection"} |->
        IF data[key] = "'false'" THEN JsFalse
        ELSE IF data[key] = "'true'" THEN JsTrue
        ELSE data[key]]

\* the auto-init loop: every data attribute but 'protection', as it is
collect(data) == [key \in DOMAIN data \ {"protection"} |-> data[key]]

\* the argument init gets on this page, from the page's script or from the
\* marker element
PageConfig == IF HasMarker THEN collect(dataset[1]) ELSE userConfig

\* a page either calls init(userConfig) from its script or carries a marker
\* element for the auto-init; of the pairs in twice, the page that calls
\* init with the first calls it a second time with the second: those runs
\* start in a new session, on a page that holds the regions of both calls,
\* with the hand-picked candidates
InitWith(configs, markers, candidates, fresh, days, twice) ==
    /\ variant \in {"inline", "listener"}
    /\ \/ userConfig \in configs /\ dataset = <<>>
       \/ userConfig = Empty /\ dataset \in {<<m>> : m \in markers}
    /\ nextConfig \in {<<>>} \cup {<<p[2]>> : p \in {q \in twice : q[1] = userConfig}}
    /\ pool = IF nextConfig = <<>> THEN candidates ELSE MainPool
    /\ today \in days
    /\ config = NoConfig
    /\ LET cfg == merge(defaults(variant), PageConfig)
       IN  IF nextConfig # <<>>
           THEN /\ storage = NewSession
                /\ dom = FreshDom({cfg.protectedContentId,
                                   merge(defaults(variant), nextConfig[1]).protectedContentId})
           ELSE /\ storage \in IF fresh THEN {NewSession} ELSE Storages(cfg)
                /\ dom \in IF fresh THEN {FreshDom({cfg.protectedContentId})}
                           ELSE {FreshDom(ids) : ids \in Pages(cfg)}
    /\ phase = "loading"
    /\ initial = "none"
    /\ trace = <<>>
    /\ last = [op |-> "none", input |-> <<>>, from |-> "OTHER", after |-> "none",
               granted |-> FALSE, accepted |-> FALSE, key |-> "any",
               relock |-> FALSE]

Init == InitWith(UserConfigs, {}, MainPool, FALSE, MainDays,
                 {<<CallbackOptions_fn, CallbackOptions_fn>>})

\* runs about the comparison: every short candidate, few configurations, a
\* new session and a page that holds the region
InitMatch == InitWith(MatchConfigs, {}, Candidates, TRUE, MainDays,
                      {<<u, u>> : u \in {merge([acceptedAnswers |-> MiniAnswers],
                                                CallbackOptions_fn)}})

\* mutant: the configuration is created by the first call and kept
init_keepsFirst(v, w, u, loading) ==
    LET w1 == IF w.cfg = NoConfig THEN [w EXCEPT !.cfg = merge(defaults(v), u)] ELSE w
    IN  IF loading THEN w1 ELSE setup(v, w1)

\* mutant: setup runs at once, whatever the readyState
init_immediate(v, w, u, loading) ==
    setup(v, [w EXCEPT !.cfg = merge(defaults(v), u)])

\* init(u): the configuration is resolved; setup runs now, or is registered
\* for DOMContentLoaded when the document is still loading
init(v, w, u, loading) ==
    LET w1 == [w EXCEPT !.cfg = merge(defaults(v), u)]
    IN  IF loading THEN w1 ELSE setup(v, w1)

\* the page's script calls init(userConfig), before or after the document is
\* ready
InitCall ==
    /\ phase \in {"loading", "idle"}
    /\ ~HasMarker
    /\ LET w == init(variant, World, userConfig, phase = "loading")
       IN  IF phase = "loading"
           THEN /\ config' = w.cfg
                /\ storage' = w.store
                /\ dom' = w.dom
                /\ phase' = "pending"
                /\ UNCHANGED <<trace, initial, last>>
           ELSE /\ Commit(w)
                /\ phase' = "ready"
                /\ initial' = Gate(w.cfg, w.dom)
                /\ last' = OpWith(w.cfg, "setup", <<>>)
    /\ UNCHANGED fixed

\* DOMContentLoaded on a page that has not called init: the auto-init
\* listener calls init with the marker's data attributes, if there is a marker
AutoInit ==
    /\ phase = "loading"
    /\ IF HasMarker
       THEN LET w == init(variant, World, collect(dataset[1]), FALSE)
            IN  /\ Commit(w)
                /\ phase' = "ready"
                /\ initial' = Gate(w.cfg, w.dom)
                /\ last' = OpWith(w.cfg, "setup", <<>>)
       ELSE /\ phase' = "idle"
            /\ UNCHANGED <<config, storage, dom, trace, initial, last>>
    /\ UNCHANGED fixed

\* DOMContentLoaded on a page that called init while loading: the registered
\* setup runs
Setup ==
    /\ phase = "pending"
    /\ LET w == setup(variant, World)
       IN  /\ Commit(w)
           /\ initial' = Gate(w.cfg, w.dom)
    /\ phase' = "ready"
    /\ last' = Op("setup", <<>>)
    /\ UNCHANGED fixed

\* the page's script calls init(nextConfig) after the first setup, before
\* any event of the visitor: the document is ready, setup runs again
InitAgain ==
    /\ phase = "ready"
    /\ last.op = "setup"
    /\ nextConfig # <<>>
    /\ LET w == init(variant, World, nextConfig[1], FALSE)
       IN  /\ Commit(w)
           /\ initial' = Gate(w.cfg, w.dom)
           /\ last' = OpWith(w.cfg, "reinit", <<>>)
    /\ phase' = "again"
    /\ UNCHANGED fixed

\* setup has run on the page shown, once or twice
Live == {"ready", "again"}

\* the visitor types candidate into the challenge input and clicks submit
\* (key "click": the click listener runs) or presses Enter (key "Enter":
\* every keypress listener runs); which of the two is recorded on a page
\* whose setup has run twice
Submit(candidate, key) ==
    /\ phase \in Live
    /\ InputShown(dom)
    /\ dom.listeners > 0
    /\ Commit(dispatch(variant, [World EXCEPT !.dom.inputValue = candidate],
                       IF key = "click" THEN 1 ELSE dom.listeners))
    /\ last' = [Op("submit", candidate) EXCEPT
                   !.key = IF phase = "again" THEN key ELSE "any"]
    /\ UNCHANGED <<fixed, phase, initial>>

\* MultiaxisProtection.checkAccess() called by the page, with candidate in
\* the challenge input; before setup has run there is no input to fill
ManualCheck(candidate) ==
    /\ \/ phase \in Live
       \/ phase \in {"loading", "pending", "idle"} /\ candidate = <<>>
    /\ Commit(checkAccess(variant, [World EXCEPT !.dom.inputValue = candidate]))
    /\ last' = Op("checkAccess", candidate)
    /\ UNCHANGED <<fixed, phase, initial>>

CheckboxChange ==
    /\ phase \in Live
    /\ ControlsShown(dom)
    /\ Commit(checkboxChange(World))
    /\ last' = Op("checkbox", <<>>)
    /\ UNCHANGED <<fixed, phase, initial>>

AcceptClick ==
    /\ phase \in Live
    /\ ControlsShown(dom)
    /\ Commit(acceptClick(variant, World))
    /\ last' = Op("accept", <<>>)
    /\ UNCHANGED <<fixed, phase, initial>>

DeclineClick ==
    /\ phase \in Live
    /\ ControlsShown(dom)
    /\ LET w == declineClick(variant, World)
       IN  IF Leaves(w.tr)
           THEN Unload(w, IF variant = "inline" THEN "away" ELSE "loading")
           ELSE Commit(w) /\ phase' = phase
    /\ last' = Op("decline", <<>>)
    /\ UNCHANGED <<fixed, initial>>

Reset ==
    /\ phase \in Live
    /\ Unload(reset(World), "loading")
    /\ last' = Op("reset", <<>>)
    /\ UNCHANGED <<fixed, initial>>

\* the visitor reloads the page
Reload ==
    /\ phase \in Live
    /\ Unload(Log(World, "reload", <<>>), "loading")
    /\ last' = Op("reload", <<>>)
    /\ UNCHANGED <<fixed, initial>>

\* after the inline decline sent the visitor to '/', they come back
Return ==
    /\ phase = "away"
    /\ Unload(World, "loading")
    /\ last' = Op("return", <<>>)
    /\ UNCHANGED <<fixed, initial>>

\* with one keypress listener the click and the Enter run the same code
Keys == IF phase = "again" THEN {"click", "Enter"} ELSE {"click"}

Next ==
    \/ InitCall
    \/ AutoInit
    \/ Setup
    \/ InitAgain
    \/ \E candidate \in pool, key \in Keys : Submit(candidate, key)
    \/ \E candidate \in pool : ManualCheck(candidate)
    \/ CheckboxChange
    \/ AcceptClick
    \/ DeclineClick
    \/ Reset
    \/ Reload
    \/ Return

Spec == Init /\ [][Next]_vars

SpecMatch == InitMatch /\ [][Next]_vars

\* runs of pages that carry a marker element
InitAuto == InitWith({}, Markers, MainPool, FALSE, MainDays,
                     {<<Empty, CallbackOptions_fn>>})

SpecAuto == InitAuto /\ [][Next]_vars

\* runs about the dates of the disclaimer, in a new session
InitDate == InitWith(DateConfigs, {}, MainPool, TRUE, DateDays,
                     {<<CallbackOptions_fn, CallbackOptions_fn>>})

SpecDate == InitDate /\ [][Next]_vars

\* runs of pages that call init twice, in a new session
InitTwice == InitWith({p[1] : p \in TwicePairs}, {}, MainPool, TRUE, MainDays, TwicePairs)

SpecTwice == InitTwice /\ [][Next]_vars

----------------------------------------------------------------------------
(* Vocabulary of the properties *)

Inline == variant = "inline"
Listener == variant = "listener"

SafeHarborEnabled == Truthy(config.enableSafeHarbor)
Granted == getItem(World, config.sessionKey) = "granted"
Accepted == getItem(World, safeHarborKey(config)) = "accepted"

Region == config.protectedContentId
RegionExists == Region \in dom.ids
Visible == RegionVisible(config, dom)

\* the handler named by last has completed on the page now shown
Completed(ops) == phase = "ready" /\ last.op \in ops /\ ~Threw(trace)

UserEvents == {"setup", "submit", "checkAccess", "checkbox", "accept"}

----------------------------------------------------------------------------
(* C1 *)

\* C1: in the inline variant, after setup and after every completed handler
\* (submit, checkbox change, accept click, manual checkAccess) the protected
\* region carries 'authorized' iff the primary flag is 'granted' and (the
\* disclaimer is disabled or the disclaimer flag is 'accepted').
C1_VisibleIffFlags ==
    (Inline /\ RegionExists /\ Completed(UserEvents))
        => (Visible <=> (Granted /\ (~SafeHarborEnabled \/ Accepted)))

\* the same, for pages whose region has the default id 'protectedContent'
C1_DefaultIdOnly ==
    (Inline /\ RegionExists /\ Region = "protectedContent" /\ Completed(UserEvents))
        => (Visible <=> (Granted /\ (~SafeHarborEnabled \/ Accepted)))

----------------------------------------------------------------------------
(* C2 *)

\* the flags as setup found them
FoundGranted == last.granted
FoundAccepted == last.accepted

NoStorageEffect ==
    \A i \in DOMAIN trace : trace[i].ev \notin {"setItem", "removeItem", "clear"}

\* C2: on setup, when the primary flag 'granted' is stored and (the
\* disclaimer is disabled or the disclaimer flag 'accepted' is stored), the
\* gate is UNLOCKED at once: the region is revealed, the challenge and the
\* disclaimer overlay are hidden and session storage is left as found
\* (Init stores every combination of the flags, module-written or not).
C2_SetupUnlocks ==
    (Completed({"setup"}) /\ FoundGranted /\ (~SafeHarborEnabled \/ FoundAccepted))
        => /\ RegionExists => Visible
           /\ ~ChallengeShown(dom)
           /\ ~DisclaimerShown(dom)
           /\ Granted
           /\ Accepted <=> FoundAccepted
           /\ NoStorageEffect

C2_Witness ==
    /\ Completed({"setup"}) /\ FoundGranted /\ FoundAccepted /\ SafeHarborEnabled
    /\ Gate(config, dom) = "UNLOCKED"
    /\ Granted /\ Accepted

----------------------------------------------------------------------------
(* C3 *)

----------------------------------------------------------------------------
(* C4 *)

C4_StartsAtDisclaimer ==
    (Listener /\ Completed({"setup"}) /\ SafeHarborEnabled /\ FoundGranted /\ ~FoundAccepted)
        => /\ DisclaimerShown(dom)
           /\ ~ChallengeShown(dom)
           /\ ~Visible
           /\ dom.shLive
           /\ initial = "DISCLAIMER_PENDING"

C4_ChallengeNeverShown ==
    (Listener /\ phase = "ready" /\ initial = "DISCLAIMER_PENDING") => ~ChallengeShown(dom)

C4_ControlsLive ==
    (Listener /\ phase = "ready" /\ initial = "DISCLAIMER_PENDING" /\ DisclaimerShown(dom))
        => /\ (last'.op = "checkbox" /\ phase' = "ready")
                => dom'.acceptDisabled = dom.checked
           /\ (last'.op = "accept" /\ dom.checked /\ ~dom.acceptDisabled)
                => /\ Accepted'
                   /\ ~DisclaimerShown(dom')
                   /\ RegionExists => Gate(config', dom') = "UNLOCKED"
           /\ (last'.op = "decline") => phase' = "loading" /\ ~Granted'

\* C4: in the listener variant, setup with the disclaimer enabled, 'granted'
\* stored and the disclaimer flag not 'accepted' shows only the disclaimer
\* overlay (challenge hidden); its checkbox, accept and decline controls have
\* their handlers; and accepting (box checked, button enabled) reaches
\* UNLOCKED, the challenge overlay never being shown on that page.
C4_ListenerPartialRecovery ==
    /\ [](C4_StartsAtDisclaimer /\ C4_ChallengeNeverShown)
    /\ [][C4_ControlsLive]_vars

C4_Witness ==
    /\ Listener /\ initial = "DISCLAIMER_PENDING"
    /\ Completed({"accept"}) /\ last.from = "DISCLAIMER_PENDING"
    /\ Gate(config, dom) = "UNLOCKED"
    /\ Granted /\ Accepted

----------------------------------------------------------------------------
(* C5 *)

\* C5: in the listener variant with the disclaimer enabled, after a setup
\* that found no 'granted' flag and until a submit passes, the challenge
\* overlay is shown and the disclaimer overlay is hidden or absent.
C5_DisclaimerHiddenWhileLocked ==
    (Listener /\ phase = "ready" /\ SafeHarborEnabled /\ initial = "LOCKED" /\ ~Granted)
        => ChallengeShown(dom) /\ ~DisclaimerShown(dom)

----------------------------------------------------------------------------
(* Vocabulary of the matching properties *)

\* the candidate of the last check, as typed and as compared
Typed == last.input
Normalized == toUpperCase(trim(last.input))

\* s and t are the same up to letter case
SameLetters(s, t) ==
    Len(s) = Len(t) /\ \A i \in DOMAIN s : toUpperCaseChar(s[i]) = toUpperCaseChar(t[i])

\* s and t are the same up to letter case and whitespace
SameUpToSpaces(s, t) == SameLetters(replaceWhitespace(s), replaceWhitespace(t))

\* u is upper(A) or upper(A without whitespace) for an accepted answer A
Matches(answers, u) ==
    \E i \in DOMAIN answers :
        u \in {toUpperCase(answers[i]), toUpperCase(replaceWhitespace(answers[i]))}

Count(name) == Cardinality({i \in DOMAIN trace : trace[i].ev = name})

Stored(key, value) ==
    \E i \in DOMAIN trace : trace[i] = Event("setItem", <<key, value>>)

\* the last check passed: it stored the primary flag
Passed == Stored(config.sessionKey, "granted")

\* a click on submit or Enter in the input, with the single listener of one
\* completed setup, in LOCKED
SubmittedInLocked == Completed({"submit"}) /\ last.from = "LOCKED" /\ dom.listeners = 1

----------------------------------------------------------------------------
(* C6 *)

\* C6 as claimed: for every accepted answer A and every casing and space
\* variant of A (spaces removed, added or repeated, leading or trailing
\* whitespace), a submit of the variant in LOCKED, on a page that holds the
\* region, leaves LOCKED: to DISCLAIMER_PENDING when the disclaimer is
\* enabled, else to UNLOCKED.
C6_EverySpaceVariantPasses ==
    (SubmittedInLocked /\ RegionExists
        /\ \E i \in DOMAIN config.acceptedAnswers :
              SameUpToSpaces(Typed, config.acceptedAnswers[i]))
        => Gate(config, dom) =
              IF SafeHarborEnabled THEN "DISCLAIMER_PENDING" ELSE "UNLOCKED"

\* C6 amended: for every accepted answer A (of the list the comparison
\* reads) and every candidate that, once trimmed of leading and trailing
\* whitespace, equals A or A with all its whitespace removed up to letter
\* case, a submit in LOCKED, on a page that holds the region, leaves LOCKED:
\* to DISCLAIMER_PENDING when the disclaimer is enabled, else to UNLOCKED.
C6_CaseAndStrippedVariantsPass ==
    (SubmittedInLocked /\ RegionExists
        /\ \E i \in DOMAIN config.acceptedAnswers :
              \/ SameLetters(trim(Typed), config.acceptedAnswers[i])
              \/ SameLetters(trim(Typed), replaceWhitespace(config.acceptedAnswers[i])))
        => Gate(config, dom) =
              IF SafeHarborEnabled THEN "DISCLAIMER_PENDING" ELSE "UNLOCKED"

C6_Witness ==
    /\ SubmittedInLocked /\ RegionExists
    /\ Typed = MultiaxisLLC
    /\ config.acceptedAnswers = ScenarioAnswers
    /\ Gate(config, dom) = "DISCLAIMER_PENDING"

----------------------------------------------------------------------------
(* C7 *)

\* C7: a submit in LOCKED (single completed setup) of a candidate that
\* matches no accepted answer under either comparison form leaves the gate
\* LOCKED (challenge shown, region hidden, primary flag not stored) and calls
\* onError, when configured, exactly once, with the trimmed, uppercased
\* candidate.  The accepted answers are those the comparison reads.
C7_FailingSubmitStaysLocked ==
    (SubmittedInLocked /\ ~Matches(config.acceptedAnswers, Normalized))
        => /\ Gate(config, dom) = "LOCKED"
           /\ ChallengeShown(dom)
           /\ ~Visible
           /\ ~Granted
           /\ ~Passed
           /\ IsFunction(config.onError)
                => /\ Count("onError") = 1
                   /\ trace[Len(trace)] = Event("onError", Normalized)
           /\ ~IsFunction(config.onError) => Count("onError") = 0
           /\ Count("onSuccess") = 0

C7_Witness ==
    /\ SubmittedInLocked
    /\ Typed = <<"a", " ", "B">>
    /\ IsFunction(config.onError)
    /\ Count("onError") = 1
    /\ Gate(config, dom) = "LOCKED"
    /\ dom.errorShown

----------------------------------------------------------------------------
(* C8 *)

\* C8: a check passes iff the trimmed, uppercased candidate equals upper(A)
\* or upper(A with all whitespace removed) for an accepted answer A; with
\* acceptedAnswers ['MULTIAXIS', 'MULTIAXIS LLC'], 'multi axis' fails and
\* 'MultiaxisLLC' passes.
C8_PassIffMatch ==
    Completed({"submit", "checkAccess"})
        => /\ Passed <=> Matches(config.acceptedAnswers, Normalized)
           /\ (config.acceptedAnswers = ScenarioAnswers /\ Typed = multi_axis) => ~Passed
           /\ (config.acceptedAnswers = ScenarioAnswers /\ Typed = MultiaxisLLC) => Passed

C8_Witness ==
    /\ Completed({"submit"})
    /\ config.acceptedAnswers = ScenarioAnswers
    /\ Typed = MultiaxisLLC
    /\ Passed /\ Granted

C8_WitnessFails ==
    /\ Completed({"submit"})
    /\ config.acceptedAnswers = ScenarioAnswers
    /\ Typed = multi_axis
    /\ ~Passed /\ ~Granted

----------------------------------------------------------------------------
(* C9 *)

Position(ev) == CHOOSE i \in DOMAIN trace : trace[i] = ev

\* C9: a passing submit in LOCKED stores 'granted' under the session key,
\* calls onSuccess (when configured) exactly once and only after the flag is
\* stored, hides the challenge overlay, and moves the gate to
\* DISCLAIMER_PENDING (disclaimer shown, region hidden) when the disclaimer is
\* enabled, else to UNLOCKED (region revealed).
C9_PassingSubmit ==
    (SubmittedInLocked /\ Matches(config.acceptedAnswers, Normalized))
        => /\ Granted
           /\ Passed
           /\ ~ChallengeShown(dom)
           /\ IsFunction(config.onSuccess)
                => /\ Count("onSuccess") = 1
                   /\ Position(Event("setItem", <<config.sessionKey, "granted">>))
                        < Position(Event("onSuccess", <<>>))
           /\ Count("onError") = 0
           /\ SafeHarborEnabled
                => DisclaimerShown(dom) /\ ~Visible
                     /\ Gate(config, dom) = "DISCLAIMER_PENDING"
           /\ (~SafeHarborEnabled /\ RegionExists)
                => Visible /\ Gate(config, dom) = "UNLOCKED"

C9_Witness ==
    /\ SubmittedInLocked
    /\ Matches(config.acceptedAnswers, Normalized)
    /\ IsFunction(config.onSuccess)
    /\ trace[Len(trace)] = Event("onSuccess", <<>>)
    /\ Gate(config, dom) = "DISCLAIMER_PENDING"
    /\ Granted

----------------------------------------------------------------------------
(* C10 *)

\* the world the check would leave had beforeCheck not been configured
WithoutHook(op, candidate) ==
    LET w == [World EXCEPT !.cfg.beforeCheck = Null, !.dom.inputValue = candidate]
    IN  IF op = "submit" THEN dispatch(variant, w, dom.listeners)
        ELSE checkAccess(variant, w)

HookFirst(tr, candidate) ==
    /\ tr # <<>>
    /\ tr[1] = Event("beforeCheck", toUpperCase(trim(candidate)))
    /\ Cardinality({i \in DOMAIN tr : tr[i].ev = "beforeCheck"}) = 1

\* C10: on every check a configured beforeCheck is called exactly once,
\* before the comparison, with the trimmed, uppercased candidate, and it
\* cannot alter the outcome: the stored flags, the overlays, the region and
\* the accepted answers are after the check what they would be without the
\* hook, whatever the hook does.
C10_HookCannotAlterOutcome ==
    [][(last'.op \in {"submit", "checkAccess"} /\ dom.modal = 1 /\ dom.listeners <= 1
            /\ IsFunction(config.beforeCheck))
        => /\ HookFirst(trace', last'.input)
           /\ storage' = WithoutHook(last'.op, last'.input).store
           /\ dom' = WithoutHook(last'.op, last'.input).dom
           /\ config'.acceptedAnswers = config.acceptedAnswers]_vars

\* the part of C10 that the code keeps: the call, its position and argument
C10_HookCalledOnceFirst ==
    [][(last'.op \in {"submit", "checkAccess"} /\ dom.modal = 1 /\ dom.listeners <= 1
            /\ IsFunction(config.beforeCheck))
        => HookFirst(trace', last'.input)]_vars

----------------------------------------------------------------------------
(* C11 *)

\* C11: in the inline variant, a click on accept in DISCLAIMER_PENDING with
\* the checkbox checked sets the disclaimer entry to 'accepted', calls a
\* configured onSafeHarborAccept exactly once, hides the disclaimer overlay
\* and moves the gate to UNLOCKED.
C11_AcceptUnlocks ==
    [][(Inline /\ phase = "ready" /\ last'.op = "accept" /\ RegionExists
            /\ Gate(config, dom) = "DISCLAIMER_PENDING" /\ dom.checked
            /\ IsFunction(config.onSafeHarborAccept))
        => /\ Accepted'
           /\ Cardinality({i \in DOMAIN trace' : trace'[i].ev = "onSafeHarborAccept"}) = 1
           /\ ~DisclaimerShown(dom')
           /\ Gate(config', dom') = "UNLOCKED"]_vars

\* the part of C11 that the inline handler keeps, on pages whose region has
\* the default id
C11_AcceptUnlocksDefaultId ==
    [][(Inline /\ phase = "ready" /\ last'.op = "accept" /\ RegionExists
            /\ Region = "protectedContent"
            /\ Gate(config, dom) = "DISCLAIMER_PENDING" /\ dom.checked)
        => /\ Accepted'
           /\ ~DisclaimerShown(dom')
           /\ Gate(config', dom') = "UNLOCKED"]_vars

----------------------------------------------------------------------------
(* C12 *)

\* the disclaimer was shown a second time on this page: the gate started in
\* LOCKED with the disclaimer enabled, reached UNLOCKED (so the checkbox was
\* checked and accept clicked), and a manual check then passed
SecondShowing ==
    /\ Completed({"checkAccess"}) /\ last.from = "UNLOCKED" /\ initial = "LOCKED"
    /\ SafeHarborEnabled /\ DisclaimerShown(dom)

\* C12: in every state where the disclaimer overlay is shown, the accept
\* button is disabled whenever the checkbox is unchecked, and an accept click
\* while the checkbox is unchecked is inert: no entry written, region not
\* revealed, overlay still shown. This holds for every showing, a second
\* showing after the checkbox was checked earlier included.
C12_AcceptNeedsCheckbox ==
    /\ []((phase = "ready" /\ DisclaimerShown(dom) /\ ~dom.checked)
            => dom.acceptDisabled)
    /\ [][(phase = "ready" /\ DisclaimerShown(dom) /\ ~dom.checked
                /\ last'.op = "accept")
            => /\ storage' = storage
               /\ dom' = dom
               /\ trace' = <<>>]_vars

\* an accept click on the second showing of the inline disclaimer (shown over
\* the revealed region), checkbox unchecked again: nothing happened
C12_Witness ==
    /\ Inline /\ Completed({"accept"}) /\ initial = "LOCKED" /\ SafeHarborEnabled
    /\ Visible /\ DisclaimerShown(dom) /\ ~dom.checked /\ dom.acceptDisabled
    /\ Accepted /\ trace = <<>>

\* the state the second showing starts in
C12_SecondShowingReset ==
    (Inline /\ SecondShowing) => (~dom.checked /\ dom.acceptDisabled)

----------------------------------------------------------------------------
(* C13 *)

\* C13: in the inline variant, a click on decline in DISCLAIMER_PENDING
\* clears both session flags, calls a configured onSafeHarborDecline, and
\* reloads the page, so that the next setup starts in LOCKED.
C13_DeclineReloads ==
    [][(Inline /\ phase = "ready" /\ last'.op = "decline"
            /\ Gate(config, dom) = "DISCLAIMER_PENDING"
            /\ IsFunction(config.onSafeHarborDecline))
        => /\ ~Granted' /\ ~Accepted'
           /\ \E i \in DOMAIN trace' : trace'[i].ev = "onSafeHarborDecline"
           /\ \E i \in DOMAIN trace' : trace'[i].ev = "reload"
           /\ phase' = "loading"]_vars

\* what the inline decline does: neither flag is left, the visitor is sent to
\* '/', and the setup of their next visit starts in LOCKED
C13_DeclineClearsAndLeaves ==
    /\ [][(Inline /\ phase = "ready" /\ last'.op = "decline"
                /\ Gate(config, dom) = "DISCLAIMER_PENDING")
            => /\ ~Granted' /\ ~Accepted'
               /\ trace'[Len(trace')] = Event("navigate", <<"/">>)
               /\ phase' = "away"]_vars
    /\ []((Inline /\ Completed({"setup"}) /\ last.after = "return")
            => Gate(config, dom) = "LOCKED")

\* the listener variant does what C13 says
C13_ListenerDeclineReloads ==
    /\ [][(Listener /\ phase = "ready" /\ last'.op = "decline"
                /\ Gate(config, dom) = "DISCLAIMER_PENDING")
            => /\ ~Granted' /\ ~Accepted'
               /\ IsFunction(config.onSafeHarborDecline)
                    => \E i \in DOMAIN trace' : trace'[i].ev = "onSafeHarborDecline"
               /\ \E i \in DOMAIN trace' : trace'[i].ev = "reload"
               /\ phase' = "loading"]_vars
    /\ []((Listener /\ Completed({"setup"}) /\ last.after = "decline")
            => Gate(config, dom) = "LOCKED")

----------------------------------------------------------------------------
(* C14 *)

\* C14: UNLOCKED is terminal within a page load: once the region is revealed
\* both overlays are hidden, and no submit, manual checkAccess(), checkbox
\* change or accept click shows an overlay again, hides the region, or removes
\* a flag.
C14_UnlockedIsTerminal ==
    [][(phase = "ready" /\ Gate(config, dom) = "UNLOCKED"
            /\ last'.op \in {"submit", "checkAccess", "checkbox", "accept"})
        => /\ Gate(config', dom') = "UNLOCKED"
           /\ Granted => Granted'
           /\ Accepted => Accepted']_vars

\* what holds of UNLOCKED: the region stays revealed, the challenge overlay
\* stays hidden and no flag is removed; with the disclaimer disabled the gate
\* stays in UNLOCKED
C14_RegionStaysRevealed ==
    [][(phase = "ready" /\ Gate(config, dom) = "UNLOCKED"
            /\ last'.op \in {"submit", "checkAccess", "checkbox", "accept"})
        => /\ RegionVisible(config', dom')
           /\ ~ChallengeShown(dom')
           /\ ~SafeHarborEnabled => Gate(config', dom') = "UNLOCKED"
           /\ Granted => Granted'
           /\ Accepted => Accepted']_vars

----------------------------------------------------------------------------
(* C15 *)

\* C15: reset() called in any gate state removes the primary flag and reloads
\* the page, and the setup that follows starts in LOCKED: the challenge
\* overlay is shown and the region is hidden.
C15_ResetRelocks ==
    /\ [][(phase = "ready" /\ last'.op = "reset")
            => /\ storage'[config.sessionKey] = Null
               /\ trace' # <<>> /\ trace'[Len(trace')] = Event("reload", <<>>)
               /\ phase' = "loading"]_vars
    /\ []((phase = "ready" /\ last.op = "setup" /\ last.after = "reset")
            => /\ ~Threw(trace)
               /\ Gate(config, dom) = "LOCKED"
               /\ ChallengeShown(dom)
               /\ ~Visible)

\* the setup after a reset() on a page whose region exists
C15_Witness ==
    /\ Completed({"setup"}) /\ last.after = "reset" /\ RegionExists
    /\ ~Granted /\ Gate(config, dom) = "LOCKED" /\ ~Visible

\* reset() was called in UNLOCKED: the disclaimer flag it leaves is found by
\* the setup that follows
C15_WitnessFromUnlocked ==
    /\ Completed({"setup"}) /\ last.after = "reset" /\ RegionExists
    /\ last.accepted /\ Gate(config, dom) = "LOCKED"

----------------------------------------------------------------------------
(* C16 *)

\* C16: once the gate has reached UNLOCKED through the UI (a passing submit,
\* and an accept when the disclaimer is enabled), the flags that setup reads
\* are stored, and every later load of the page in the same session with the
\* same configuration starts in UNLOCKED with no overlay shown.
C16_UnlockedPersists ==
    /\ []((phase = "ready" /\ Gate(config, dom) = "UNLOCKED")
            => (Granted /\ (SafeHarborEnabled => Accepted)))
    /\ [][(last.op = "reload" /\ last.from = "UNLOCKED" /\ last'.op = "setup")
            => /\ Gate(config', dom') = "UNLOCKED"
               /\ ~ChallengeShown(dom') /\ ~DisclaimerShown(dom')
               /\ storage' = storage]_vars

\* a page load that starts in UNLOCKED with the disclaimer enabled, in a
\* session that began with neither flag stored
C16_Witness ==
    /\ Completed({"setup"}) /\ last.after = "reload" /\ SafeHarborEnabled
    /\ Gate(config, dom) = "UNLOCKED" /\ initial = "UNLOCKED"
    /\ Granted /\ Accepted /\ trace = <<>>

----------------------------------------------------------------------------
(* C17 *)

----------------------------------------------------------------------------
(* C18 *)

\* the disclaimer key as the configuration states it
DisclaimerKey(cfg) ==
    IF cfg.safeHarborKey = Null THEN cfg.sessionKey \o "_safeharbor"
    ELSE cfg.safeHarborKey

\* the entry a setItem of the last handler wrote
Writes == {trace[i].arg : i \in {j \in DOMAIN trace : trace[j].ev = "setItem"}}

\* C18: the module persists exactly two entries, 'granted' under sessionKey
\* and 'accepted' under the disclaimer key, which is sessionKey +
\* '_safeharbor' when safeHarborKey is absent. No other value is written
\* under either key (nor any other entry), and the same disclaimer key is
\* used when setup reads the flag, when accept writes it and when decline
\* clears it.
C18_TwoEntries ==
    /\ [](Writes \subseteq {<<config.sessionKey, "granted">>,
                            <<DisclaimerKey(config), "accepted">>})
    /\ [][(last'.op = "setup" /\ SafeHarborEnabled' /\ RegionExists'
                /\ storage[config'.sessionKey] = "granted")
            => (Gate(config', dom') = "UNLOCKED"
                    <=> storage[DisclaimerKey(config')] = "accepted")]_vars
    /\ [][(phase = "ready" /\ last'.op = "accept" /\ trace' # <<>> /\ ~Threw(trace'))
            => /\ storage'[DisclaimerKey(config)] = "accepted"
               /\ \A k \in AllKeys \ {DisclaimerKey(config)} : storage'[k] = storage[k]]_vars
    /\ [][(phase = "ready" /\ last'.op = "decline" /\ trace' # <<>>)
            => /\ storage'[DisclaimerKey(config)] = Null
               /\ storage'[config.sessionKey] = Null]_vars

\* an accept click wrote the disclaimer entry under the caller's safeHarborKey
C18_Witness ==
    /\ Completed({"accept"}) /\ config.safeHarborKey = "terms_accepted"
    /\ Writes = {<<"terms_accepted", "accepted">>}
    /\ storage["terms_accepted"] = "accepted"
    /\ storage[config.sessionKey] = "granted"

\* the derived key, read by the setup after a reload
C18_WitnessDerivedKey ==
    /\ Completed({"setup"}) /\ last.after = "reload"
    /\ config.safeHarborKey = Null /\ config.sessionKey = "premium_access"
    /\ storage["premium_access_safeharbor"] = "accepted"
    /\ Gate(config, dom) = "UNLOCKED"

----------------------------------------------------------------------------
(* C19 *)

\* the session-storage entries that are not the two configured keys
Unrelated == AllKeys \ {config.sessionKey, DisclaimerKey(config)}

C19_UnrelatedUntouchedButInlineDecline ==
    [][(Listener \/ last'.op # "decline")
        => \A k \in (Unrelated \ {config'.sessionKey, DisclaimerKey(config')}) :
               storage'[k] = storage[k]]_vars

----------------------------------------------------------------------------
(* C20 *)

\* the submit of candidate on the page as it would be had no submit failed:
\* the error message is the only thing a failed submit leaves
AsFirstSubmit(candidate) ==
    dispatch(variant,
             [World EXCEPT !.dom.errorShown = FALSE, !.dom.inputValue = candidate],
             dom.listeners)

\* C20: there is no lockout, attempt counter or rate limit. A failing submit
\* in LOCKED leaves nothing behind but the error message, and after any
\* number of them a matching submit still passes, with exactly the effect it
\* would have had as the first submit.
C20_NoLockout ==
    /\ [][(phase = "ready" /\ Gate(config, dom) = "LOCKED" /\ last'.op = "submit"
                /\ ~Matches(config'.acceptedAnswers, toUpperCase(trim(last'.input))))
            => /\ storage' = storage
               /\ config' = config
               /\ dom' = [dom EXCEPT !.errorShown = TRUE, !.inputValue = <<>>]]_vars
    /\ [][(phase = "ready" /\ Gate(config, dom) = "LOCKED" /\ dom.errorShown
                /\ last'.op = "submit"
                /\ Matches(config'.acceptedAnswers, toUpperCase(trim(last'.input))))
            => /\ storage'[config.sessionKey] = "granted"
               /\ ~ChallengeShown(dom')
               /\ storage' = AsFirstSubmit(last'.input).store
               /\ dom' = AsFirstSubmit(last'.input).dom
               /\ trace' = AsFirstSubmit(last'.input).tr
               /\ config' = AsFirstSubmit(last'.input).cfg]_vars

\* a submit passes right after a submit that failed
C20_Witness ==
    /\ SubmittedInLocked /\ last.after = "submit" /\ Passed /\ Granted
    /\ Matches(config.acceptedAnswers, Normalized)
    /\ ~ChallengeShown(dom) /\ ~dom.errorShown

----------------------------------------------------------------------------
(* C21 *)

\* C21: errors of the caller's configuration never surface as exceptions.
\* With an empty acceptedAnswers every submit fails without throwing and the
\* gate stays LOCKED; with a protectedContentId that names no element, setup,
\* submit and accept complete without throwing and the region stays hidden.
\* (Callbacks leave the caller's array alone.)
C21_ConfigErrorsNeverThrow ==
    /\ (phase = "ready" /\ last.op = "submit" /\ last.from = "LOCKED"
            /\ "acceptedAnswers" \in DOMAIN userConfig
            /\ userConfig.acceptedAnswers = <<>> /\ config.beforeCheck # "fn:replace")
        => (~Threw(trace) /\ ~Passed /\ Gate(config, dom) = "LOCKED")
    /\ (phase = "ready" /\ last.op \in {"setup", "submit", "accept"} /\ ~RegionExists)
        => (~Threw(trace) /\ ~Visible)

\* the part of C21 about the empty acceptedAnswers, for callbacks that leave
\* the caller's array alone
C21_EmptyAnswersStayLocked ==
    (phase = "ready" /\ last.op = "submit" /\ last.from = "LOCKED"
        /\ config.acceptedAnswers = <<>> /\ config.beforeCheck # "fn:replace")
    => (~Threw(trace) /\ ~Passed /\ Gate(config, dom) = "LOCKED")

\* the part of C21 about the missing region, but for the inline accept
C21_MissingRegionButInlineAccept ==
    (phase = "ready" /\ last.op \in {"setup", "submit", "accept"} /\ ~RegionExists
        /\ (Listener \/ last.op # "accept" \/ "protectedContent" \in dom.ids))
    => (~Threw(trace) /\ ~Visible)

----------------------------------------------------------------------------
(* C22 *)

\* C22: an operation whose DOM node is missing aborts without throwing. In
\* particular checkAccess() called when the challenge input does not exist
\* (before setup has run, or without any init call) returns without an
\* exception and without changing a flag, and a passing submit whose
\* disclaimer overlay is missing does not throw.
C22_MissingNodesNeverThrow ==
    /\ (phase \in {"loading", "pending", "idle"} /\ last.op = "checkAccess")
        => ~Threw(trace)
    /\ (phase = "ready" /\ last.op = "submit" /\ Passed /\ dom.sh = 0)
        => ~Threw(trace)

\* what checkAccess() does before setup: it throws, and changes nothing
C22_EarlyCheckThrows ==
    [][(phase \in {"loading", "pending", "idle"} /\ last'.op = "checkAccess"
            /\ last' # last)
        => /\ trace' = <<Event("throw", <<"TypeError">>)>>
           /\ storage' = storage /\ dom' = dom /\ config' = config]_vars

----------------------------------------------------------------------------
(* C23 *)

\* what the handler of event op does in world w
Handle(op, input, w) ==
    CASE op = "setup" -> setup(variant, w)
      [] op = "submit" -> dispatch(variant, [w EXCEPT !.dom.inputValue = input],
                                   w.dom.listeners)
      [] op = "checkAccess" -> checkAccess(variant, [w EXCEPT !.dom.inputValue = input])
      [] op = "checkbox" -> checkboxChange(w)
      [] op = "accept" -> acceptClick(variant, w)
      [] op = "decline" -> declineClick(variant, w)
      [] op = "reset" -> reset(w)
      [] OTHER -> w

\* the world on a day, with a safeHarborDate and a safeHarborDaysValid of
\* another run, and the dates its disclaimer would display
Redated(w, day, date, valid) ==
    LET w1 == [w EXCEPT !.now = day,
                        !.cfg.safeHarborDate = date,
                        !.cfg.safeHarborDaysValid = valid]
    IN  IF w.dom.sh = 0 THEN w1
        ELSE [w1 EXCEPT !.dom.notice = getSafeHarborDate(w1),
                        !.dom.expires = getSafeHarborExpirationDate(w1)]

\* a world without its dates
Undated(w) ==
    [cfg |-> [w.cfg EXCEPT !.safeHarborDate = <<>>, !.safeHarborDaysValid = 0],
     store |-> w.store,
     dom |-> [w.dom EXCEPT !.notice = <<>>, !.expires = <<>>],
     tr |-> w.tr]

\* the world a handler starts in; setup starts with the resolved configuration
Before(op) ==
    IF op = "setup" THEN [World EXCEPT !.cfg = merge(defaults(variant), PageConfig)]
    ELSE World

\* the world a handler has left
After == [cfg |-> config', store |-> storage', dom |-> dom', tr |-> trace']

\* the disclaimer is displayed past its expiration date
Expired == dom.expires # <<>> /\ dom.expires[1] < today

\* C23: the expiration of the disclaimer is cosmetic. Every handler does in
\* a run that differs only in safeHarborDate, safeHarborDaysValid or the
\* current day what it does in this run: same gate state, same flags, same
\* callbacks; an expired disclaimer does not disable accept and does not
\* block UNLOCKED.
C23_DatesAreCosmetic ==
    [][(last' # last /\ phase # "again"
            /\ last'.op \in UserEvents \cup {"decline", "reset"})
        => \A day \in DateDays, date \in {<<>>, <<60>>}, valid \in {0, 45, 90} :
           \A other \in {Redated(Before(last'.op), day, date, valid)} :
           \A there \in {Handle(last'.op, last'.input, other)} :
                /\ there.store = storage'
                /\ there.tr = trace'
                /\ phase' = "ready"
                     => /\ Undated(there) = Undated(After)
                        /\ Gate(there.cfg, there.dom) = Gate(config', dom')]_vars

\* the disclaimer was accepted past its expiration date, and the gate is
\* UNLOCKED
C23_Witness ==
    /\ Completed({"accept"}) /\ Expired /\ Accepted /\ Granted
    /\ Gate(config, dom) = "UNLOCKED" /\ initial = "LOCKED"
    /\ Stored(safeHarborKey(config), "accepted")

----------------------------------------------------------------------------
(* C24 *)

\* the day the disclaimer takes effect: safeHarborDate, or today
EffectiveDay == IF config.safeHarborDate # <<>> THEN config.safeHarborDate[1] ELSE today

\* C24: the displayed expiration date is the effective date plus exactly
\* safeHarborDaysValid days for every configured number of days d >= 0,
\* d = 0 included, and plus the documented default of 90 days when
\* safeHarborDaysValid is omitted.
C24_ExpirationIsDatePlusDays ==
    (phase = "ready" /\ dom.sh > 0)
    => dom.expires = << EffectiveDay +
                        (IF "safeHarborDaysValid" \in DOMAIN PageConfig
                         THEN PageConfig.safeHarborDaysValid ELSE 90) >>

\* what the code displays: 0 days count as 90, and the default is that of
\* the defaults record (30 in protection.js, 90 in part_000)
C24_ExpirationAsComputed ==
    (phase = "ready" /\ dom.sh > 0)
    => dom.expires = << EffectiveDay +
                        (IF "safeHarborDaysValid" \notin DOMAIN PageConfig
                         THEN (IF Inline THEN 30 ELSE 90)
                         ELSE IF PageConfig.safeHarborDaysValid = 0 THEN 90
                         ELSE PageConfig.safeHarborDaysValid) >>

\* the listener variant with safeHarborDaysValid omitted or positive
C24_ListenerPositiveDays ==
    (Listener /\ phase = "ready" /\ dom.sh > 0 /\ config.safeHarborDaysValid > 0)
    => dom.expires = << EffectiveDay +
                        (IF "safeHarborDaysValid" \in DOMAIN PageConfig
                         THEN PageConfig.safeHarborDaysValid ELSE 90) >>

----------------------------------------------------------------------------
(* C25 *)

\* the data attributes of the marker element, but 'protection'
DataKeys == DOMAIN dataset[1] \ {"protection"}

\* C25: at DOMContentLoaded, if an element with data-protection="multiaxis"
\* exists, init is invoked exactly once (one setup runs) with a configuration
\* that holds every other data attribute of the element under its dataset
\* key, its string value unchanged, and no entry 'protection'; if there is no
\* such element, init is not invoked.
C25_AutoInit ==
    /\ [][(phase = "loading" /\ phase' \in {"idle", "ready"})
            => IF HasMarker
               THEN /\ phase' = "ready"
                    /\ dom'.modal = 1
                    /\ DOMAIN config' = DOMAIN defaults(variant) \cup DataKeys
                    /\ \A key \in DataKeys : config'[key] = dataset[1][key]
                    /\ \A f \in DOMAIN defaults(variant) \ DataKeys :
                            config'[f] = defaults(variant)[f]
                    /\ "protection" \notin DOMAIN config'
               ELSE /\ phase' = "idle"
                    /\ config' = NoConfig
                    /\ dom' = dom /\ storage' = storage]_vars
    /\ [](phase = "idle" => (config = NoConfig /\ dom.modal = 0))

\* auto-init from <div data-protection="multiaxis" data-session-key=
\* "premium_access" data-enable-safe-harbor="false" ...>
C25_Witness ==
    /\ Completed({"setup"}) /\ HasMarker /\ dom.modal = 1
    /\ config.sessionKey = "premium_access"
    /\ config.enableSafeHarbor = "'false'"
    /\ "protection" \notin DOMAIN config

\* a page whose element has another data-protection value: no init
C25_WitnessNoMarker ==
    phase = "idle" /\ dataset # <<>> /\ ~HasMarker /\ config = NoConfig

----------------------------------------------------------------------------
(* C26 *)

\* nothing of the gate exists yet: no overlay, no listener, region not
\* revealed
Untouched(d) ==
    d.modal = 0 /\ d.sh = 0 /\ d.listeners = 0 /\ d.authorized = {}

\* C26: setup is deferred to document readiness and runs once per init call.
\* Before setup runs no overlay exists, the region is not revealed and no
\* session entry is written; init called while the document is loading
\* changes nothing but the configuration, and only DOMContentLoaded runs the
\* pending setup (if it never fires, setup never runs); init called when the
\* document is ready runs setup at once; after setup there is one challenge
\* overlay.
C26_SetupDeferredOnce ==
    /\ [](phase \in {"loading", "pending", "idle"} => Untouched(dom))
    /\ [](phase = "ready" => (dom.modal = 1 /\ dom.sh <= 1 /\ dom.listeners <= 1))
    /\ [][(phase = "loading" /\ phase' = "pending")
            => /\ config' = merge(defaults(variant), userConfig)
               /\ storage' = storage /\ dom' = dom]_vars
    /\ [][(phase = "pending") => (\/ phase' = "pending" /\ dom' = dom /\ storage' = storage
                                  \/ phase' = "ready" /\ last'.op = "setup")]_vars
    /\ [][(phase = "idle" /\ config' # config)
            => (phase' = "ready" /\ last'.op = "setup" /\ dom'.modal = 1)]_vars

\* init was called while the document was loading: the configuration is
\* resolved, setup has not run
C26_Witness ==
    /\ phase = "pending" /\ config = merge(defaults(variant), userConfig)
    /\ Untouched(dom) /\ last.op = "reload" /\ Granted

----------------------------------------------------------------------------
(* C27 *)

\* C27: with the disclaimer disabled (enableSafeHarbor false) the disclaimer
\* overlay is never created and never shown, no disclaimer entry is written,
\* and a passing submit goes from LOCKED directly to UNLOCKED.
C27_NoDisclaimerWhenDisabled ==
    /\ (phase = "ready" /\ ~SafeHarborEnabled)
        => /\ dom.sh = 0
           /\ ~DisclaimerShown(dom)
           /\ \A i \in DOMAIN trace :
                 trace[i].ev = "setItem" => trace[i].arg[1] # DisclaimerKey(config)
    /\ (SubmittedInLocked /\ ~SafeHarborEnabled /\ Passed /\ RegionExists)
        => (Gate(config, dom) = "UNLOCKED" /\ Visible /\ ~ChallengeShown(dom))

C27_Witness ==
    /\ SubmittedInLocked /\ ~SafeHarborEnabled /\ Passed /\ RegionExists
    /\ Gate(config, dom) = "UNLOCKED" /\ dom.sh = 0 /\ ~Accepted

----------------------------------------------------------------------------
(* C28 *)

\* C28: a failing check (a submit, or checkAccess() called by the page after
\* setup, of a candidate that matches no accepted answer) changes nothing but
\* the error display and the input field: both session entries, the
\* visibility of both overlays and the visibility of the protected region
\* are after the handler what they were before it, the error element (whose
\* text is config.errorMessage) is displayed, the input field is empty, and
\* onSuccess is not called.
C28_FailureFrame ==
    [][(phase = "ready" /\ last'.op \in {"submit", "checkAccess"}
            /\ ~Matches(config'.acceptedAnswers, toUpperCase(trim(last'.input))))
        => /\ Granted' = Granted
           /\ Accepted' = Accepted
           /\ ChallengeShown(dom') = ChallengeShown(dom)
           /\ DisclaimerShown(dom') = DisclaimerShown(dom)
           /\ Visible' = Visible
           /\ dom'.errorShown
           /\ dom'.inputValue = <<>>
           /\ \A i \in DOMAIN trace' : trace'[i].ev # "onSuccess"]_vars

\* checkAccess() fails on a page that is already unlocked
C28_Witness ==
    /\ Completed({"checkAccess"}) /\ last.from = "UNLOCKED"
    /\ ~Matches(config.acceptedAnswers, Normalized)
    /\ Typed # <<>>
    /\ dom.errorShown /\ dom.inputValue = <<>>
    /\ Visible /\ ~ChallengeShown(dom) /\ Granted

----------------------------------------------------------------------------
(* C29 *)

\* one completed run of checkAccess: a call by the page, or a submit with
\* the single listener of one setup
CheckRan ==
    /\ Completed({"submit", "checkAccess"})
    /\ last.op = "submit" => dom.listeners = 1

Calls(name) == {i \in DOMAIN trace : trace[i].ev = name}

\* C29: every completed run of the check calls exactly one of onSuccess and
\* onError (each when configured: onSuccess when the check passed, onError
\* when it failed), exactly once and after beforeCheck; onError receives the
\* normalized candidate that beforeCheck received; and after the run, pass
\* or fail, the input field is empty.
C29_OneOutcomeCallback ==
    CheckRan
        => /\ Cardinality(Calls("onSuccess")) =
                 IF Passed /\ IsFunction(config.onSuccess) THEN 1 ELSE 0
           /\ Cardinality(Calls("onError")) =
                 IF ~Passed /\ IsFunction(config.onError) THEN 1 ELSE 0
           /\ (IsFunction(config.onSuccess) /\ IsFunction(config.onError))
                 => Cardinality(Calls("onSuccess") \cup Calls("onError")) = 1
           /\ IsFunction(config.beforeCheck)
                 => /\ Calls("beforeCheck") = {1}
                    /\ \A i \in Calls("onError") : trace[i].arg = trace[1].arg
           /\ \A i \in Calls("onError") : trace[i].arg = Normalized
           /\ dom.inputValue = <<>>

\* a failing run whose candidate normalisation changed, all hooks configured
C29_Witness ==
    /\ CheckRan /\ ~Passed
    /\ Typed # <<>> /\ Typed # Normalized
    /\ IsFunction(config.onSuccess) /\ IsFunction(config.onError)
    /\ config.beforeCheck = "fn"
    /\ Len(trace) = 2
    /\ trace[1] = Event("beforeCheck", Normalized)
    /\ trace[2] = Event("onError", Normalized)

\* a passing run, all hooks configured
C29_WitnessPass ==
    /\ CheckRan /\ Passed
    /\ IsFunction(config.onSuccess) /\ IsFunction(config.onError)
    /\ trace[1].ev = "beforeCheck" /\ trace[Len(trace)].ev = "onSuccess"
    /\ Calls("onError") = {}

----------------------------------------------------------------------------
(* C30 *)

\* C30: in the inline variant, for every configured protectedContentId,
\* accepting the disclaimer reveals the element named by
\* config.protectedContentId, the element that a passing submit reveals when
\* the disclaimer is disabled and that setup reveals when both entries are
\* stored.
C30_AcceptRevealsConfiguredRegion ==
    /\ [][(Inline /\ phase = "ready" /\ last'.op = "accept" /\ RegionExists
                /\ Gate(config, dom) = "DISCLAIMER_PENDING"
                /\ dom.checked /\ ~dom.acceptDisabled)
            => /\ Region \in dom'.authorized
               /\ dom'.authorized \ dom.authorized \subseteq {Region}]_vars
    /\ [](Inline /\ SubmittedInLocked /\ ~SafeHarborEnabled /\ Passed /\ RegionExists
            => dom.authorized = {Region})
    /\ [](Inline /\ Completed({"setup"}) /\ Granted /\ Accepted /\ RegionExists
            => dom.authorized = {Region})

\* the part of C30 that the inline variant keeps: the submit and setup reveal
\* the configured element, and accept reveals the element 'protectedContent'
C30_SubmitAndSetupReveal ==
    /\ [][(Inline /\ phase = "ready" /\ last'.op = "accept"
                /\ "protectedContent" \in dom.ids
                /\ Gate(config, dom) = "DISCLAIMER_PENDING"
                /\ dom.checked /\ ~dom.acceptDisabled)
            => dom'.authorized = dom.authorized \cup {"protectedContent"}]_vars
    /\ [](Inline /\ SubmittedInLocked /\ ~SafeHarborEnabled /\ Passed /\ RegionExists
            => dom.authorized = {Region})
    /\ [](Inline /\ Completed({"setup"}) /\ Granted /\ Accepted /\ RegionExists
            => dom.authorized = {Region})

\* the listener variant reveals the configured element on accept
C30_ListenerAcceptReveals ==
    [][(~Inline /\ phase = "ready" /\ last'.op = "accept" /\ RegionExists
            /\ Gate(config, dom) = "DISCLAIMER_PENDING"
                /\ dom.checked /\ ~dom.acceptDisabled)
        => dom'.authorized = dom.authorized \cup {Region}]_vars

----------------------------------------------------------------------------
(* C34 *)

\* C34: in the inline variant with the disclaimer enabled, after setup and
\* after every event handler on the page, the disclaimer entry is 'accepted'
\* only if the primary entry is 'granted', whatever the two entries held
\* when the page was loaded.
C34_AcceptedImpliesGranted ==
    (Inline /\ SafeHarborEnabled /\ phase = "ready") => (Accepted => Granted)

\* setup found 'accepted' without 'granted' (as reset leaves them) and
\* removed it
C34_Witness ==
    /\ Inline /\ SafeHarborEnabled /\ Completed({"setup"})
    /\ last.accepted /\ ~last.granted
    /\ ~Accepted /\ ~Granted

\* both entries stored by the visitor's own submit and accept
C34_WitnessAccepted ==
    /\ Inline /\ SafeHarborEnabled /\ Completed({"accept"})
    /\ ~last.accepted /\ Accepted /\ Granted

----------------------------------------------------------------------------
(* C35 *)

\* C35: in the inline variant, in every state after setup, the challenge
\* overlay and the disclaimer overlay are never visible at the same time,
\* and whenever the protected region (an element of the page) is hidden
\* exactly one of the two overlays is visible.
C35_ExactlyOneOverlay ==
    (Inline /\ phase = "ready")
        => /\ ~(ChallengeShown(dom) /\ DisclaimerShown(dom))
           /\ (RegionExists /\ ~Visible)
                 => (ChallengeShown(dom) \/ DisclaimerShown(dom))

\* the part of C35 that the inline variant keeps: the overlays are never
\* visible together, and a hidden region with the default id always comes
\* with one overlay
C35_ExactlyOneOverlayDefaultId ==
    (Inline /\ phase = "ready")
        => /\ ~(ChallengeShown(dom) /\ DisclaimerShown(dom))
           /\ (RegionExists /\ ~Visible /\ Region = "protectedContent")
                 => (ChallengeShown(dom) \/ DisclaimerShown(dom))

----------------------------------------------------------------------------
(* C37 *)

\* the caller wrote data-enable-safe-harbor="false"
TurnedOffByAttribute == phase = "ready" /\ config.enableSafeHarbor = "'false'"

\* C37: a configuration whose enableSafeHarbor is the string 'false', as the
\* auto-init produces it from data-enable-safe-harbor="false", behaves like
\* enableSafeHarbor = false: no disclaimer overlay is created and a passing
\* submit goes from LOCKED directly to UNLOCKED.
C37_StringFalseDisables ==
    /\ TurnedOffByAttribute => (dom.sh = 0 /\ ~DisclaimerShown(dom))
    /\ (TurnedOffByAttribute /\ SubmittedInLocked /\ Passed /\ RegionExists)
        => Gate(config, dom) = "UNLOCKED"

\* what the code does with the string: it is truthy, the disclaimer overlay
\* is created and a passing submit in LOCKED shows it
C37_StringFalseEnables ==
    /\ TurnedOffByAttribute => dom.sh = 1
    /\ (TurnedOffByAttribute /\ SubmittedInLocked /\ Passed /\ RegionExists)
        => (DisclaimerShown(dom) /\ ~Visible)

----------------------------------------------------------------------------
(* C31 *)

\* C31: with the default styles enabled, for every configured
\* protectedContentId, the protected region is not displayed in LOCKED and
\* in DISCLAIMER_PENDING.
C31_RegionHiddenUnlessUnlocked ==
    (phase = "ready" /\ Truthy(config.useDefaultStyles) /\ RegionExists
        /\ Gate(config, dom) \in {"LOCKED", "DISCLAIMER_PENDING"})
        => ~Displayed(dom, Region)

\* the part of C31 that the code keeps: the region with the default id
C31_DefaultRegionHidden ==
    (phase = "ready" /\ Truthy(config.useDefaultStyles) /\ RegionExists
        /\ Region = "protectedContent"
        /\ Gate(config, dom) \in {"LOCKED", "DISCLAIMER_PENDING"})
        => ~Displayed(dom, Region)

----------------------------------------------------------------------------
(* C36 *)

\* C36: in the listener variant with the disclaimer enabled, after reset()
\* has been called in UNLOCKED, the protected region is revealed again only
\* after a new passing submit and a new click on accept: as long as no
\* accept click has run the accept handler, no sequence of submits and
\* reloads reveals the region.
C36_ResetRequiresNewAccept ==
    (Listener /\ SafeHarborEnabled /\ phase = "ready" /\ last.relock) => ~Visible

\* the part of C36 that the listener variant keeps: after reset() the region
\* stays hidden until a new submit has passed
C36_ResetRequiresNewSubmit ==
    (Listener /\ SafeHarborEnabled /\ phase = "ready" /\ last.relock /\ ~Granted)
        => ~Visible

----------------------------------------------------------------------------
(* C32 *)

Index(tr, e) == CHOOSE i \in DOMAIN tr : tr[i] = e

\* C32: after setup has run twice on the same page in LOCKED, the overlays of
\* the first setup still in the document, one Enter in the challenge input
\* runs the check more than once.  For a matching candidate (the empty
\* string not being an accepted answer, the hook leaving the answers alone)
\* the first run passes, storing the primary flag and calling onSuccess, and
\* the second run reads the emptied input, fails, displays the error and
\* calls onError with the empty string.
C32_EnterRunsCheckTwice ==
    [][(phase = "again" /\ initial = "LOCKED" /\ dom.modal = 2
            /\ last'.op = "submit" /\ last'.key = "Enter"
            /\ Matches(config.acceptedAnswers, toUpperCase(trim(last'.input)))
            /\ config'.acceptedAnswers = config.acceptedAnswers
            /\ ~Matches(config.acceptedAnswers, <<>>))
        => /\ storage'[config.sessionKey] = "granted"
           /\ Cardinality({i \in DOMAIN trace' :
                 trace'[i] = Event("setItem", <<config.sessionKey, "granted">>)}) = 1
           /\ IsFunction(config.beforeCheck)
                 => Cardinality({i \in DOMAIN trace' : trace'[i].ev = "beforeCheck"}) = 2
           /\ IsFunction(config.onSuccess)
                 => Cardinality({i \in DOMAIN trace' : trace'[i].ev = "onSuccess"}) = 1
           /\ IsFunction(config.onError)
                 => /\ Cardinality({i \in DOMAIN trace' : trace'[i].ev = "onError"}) = 1
                    /\ trace'[Len(trace')] = Event("onError", <<>>)
           /\ (IsFunction(config.onSuccess) /\ IsFunction(config.onError))
                 => Index(trace', Event("onSuccess", <<>>)) < Len(trace')
           /\ dom'.errorShown
           /\ dom'.inputValue = <<>>]_vars

C32_Witness ==
    /\ phase = "again" /\ initial = "LOCKED" /\ dom.modal = 2
    /\ last.op = "submit" /\ last.key = "Enter" /\ last.from = "LOCKED"
    /\ Typed = multiaxis_padded
    /\ Granted /\ dom.errorShown
    /\ Count("onSuccess") = 1 /\ Count("onError") = 1
    /\ trace[Len(trace)] = Event("onError", <<>>)

\* a click on the submit button runs the check once, the click listener
\* being the one function checkAccess
C32_ClickRunsCheckOnce ==
    [][(phase = "again" /\ last'.op = "submit" /\ last'.key = "click")
        => Cardinality({i \in DOMAIN trace' :
              trace'[i].ev \in {"onSuccess", "onError"}}) <= 1]_vars

----------------------------------------------------------------------------
(* C33 *)

\* the configurations the two init calls of the page resolve
FirstCall == merge(defaults(variant), userConfig)
SecondCall == merge(defaults(variant), nextConfig[1])

\* C33: config is one record shared by the whole module.  After a second
\* init call every handler uses the second call's values: a passing check
\* writes 'granted' under the second call's sessionKey, and nothing under
\* the first call's, and with the disclaimer disabled reveals the second
\* call's protectedContentId; reset() removes the second call's sessionKey.
C33_SecondCallRules ==
    /\ [](phase = "again" =>
            \A f \in DOMAIN config \ {"acceptedAnswers"} : config[f] = SecondCall[f])
    /\ [][(phase = "again" /\ last'.op \in {"submit", "checkAccess"}
                /\ ~Threw(trace')
                /\ SecondCall.beforeCheck # "fn:replace"
                /\ Matches(SecondCall.acceptedAnswers, toUpperCase(trim(last'.input))))
            => /\ storage'[SecondCall.sessionKey] = "granted"
               /\ FirstCall.sessionKey # SecondCall.sessionKey
                     => storage'[FirstCall.sessionKey] = storage[FirstCall.sessionKey]
               /\ ~Truthy(SecondCall.enableSafeHarbor)
                     => SecondCall.protectedContentId \in dom'.authorized
               /\ FirstCall.protectedContentId # SecondCall.protectedContentId
                     => FirstCall.protectedContentId \in dom'.authorized
                          <=> FirstCall.protectedContentId \in dom.authorized]_vars
    /\ [][(phase = "again" /\ last'.op = "reset")
            => /\ trace'[1] = Event("removeItem", <<SecondCall.sessionKey>>)
               /\ FirstCall.sessionKey # SecondCall.sessionKey
                     => storage'[FirstCall.sessionKey] = storage[FirstCall.sessionKey]]_vars

\* a passing submit after the second call, for another section, has stored
\* the flag of the second call's section and revealed its region
C33_Witness ==
    /\ phase = "again" /\ last.op = "submit"
    /\ FirstCall.sessionKey # SecondCall.sessionKey
    /\ FirstCall.protectedContentId # SecondCall.protectedContentId
    /\ storage[SecondCall.sessionKey] = "granted"
    /\ storage[FirstCall.sessionKey] = Null
    /\ SecondCall.protectedContentId \in dom.authorized
    /\ FirstCall.protectedContentId \notin dom.authorized

====
